---- MODULE Spec2Model ----
(***************************************************************************)
(* One request against the cities server of go-context-cancellation        *)
(* (server.go: List, ListStream, rest, contextError) together with the      *)
(* streaming client (client/main.go: main, callStream).                     *)
(*                                                                          *)
(* Time is counted in ticks of 100 ms.  A handler step other than           *)
(* time.Sleep takes no time; the clock advances only while the handler      *)
(* sleeps, and never past a wake-up, an elapsed deadline or a receive the   *)
(* client can already perform.                                              *)
(***************************************************************************)
EXTENDS Integers, Sequences, FiniteSets, TLC

VARIABLES
    kind,         \* entry point of the request: "List", "ListStream" or "rest"
    ctxImpl,      \* "std": a context made by grpc / net/http; "custom": any context.Context
    ctxErr,       \* value of ctx.Err(): "nil" while live, the reason once done
    now,          \* clock, in ticks of 100 ms
    deadline,     \* tick at which the context's deadline elapses, or NoDeadline
    pc,           \* position of the handler (List or ListStream)
    i,            \* the handler's loop counter
    list,         \* List: the slice accumulated so far
    wake,         \* tick at which the current time.Sleep ends
    resp,         \* List: <<>> for a nil *Cities, <<cities>> for &Cities{City: cities}
    err,          \* error returned by the handler (Nil: none)
    sent,         \* ListStream: messages stream.Send accepted, in order
    delivered,    \* number of sent messages that reached the client's stream
    trailer,      \* <<>> or <<status>>: handler status that reached the client
    cpc,          \* callStream: "recv" in the loop, "eof" returned nil, "err" returned err
    recvd,        \* callStream: messages stream.Recv returned, in order
    cerr,         \* callStream: the error it returned (Nil: none)
    rpc,          \* rest: position of the HTTP handler
    wStatus,      \* rest: status code written (0: none yet)
    wBody,        \* rest: data handed to w.Write
    wHeaderCalls, \* rest: number of w.WriteHeader calls
    logged,       \* rest: lines written with log.Println
    afterDone,    \* history: items produced while the context was already done
    ceCalls,      \* history: calls of contextError: where, on which ctx.Err(), result
    mpc,          \* main / run of the server: position
    gpc,          \* per listener: position of its goroutine
    gerr,         \* per listener: the error runRpcServer / runRestServer returned
    sendq,        \* goroutines blocked in `errorServer <- ...`, in arrival order
    runErr,       \* <<>> or <<e>>: what run returned
    exited,       \* <<>> or <<status>>: exit status of the server process
    mlog,         \* lines main wrote with log.Printf
    failOrder,    \* history: listeners in the order in which they returned
    sendOrder,    \* history: listeners in the order in which they reached the send
    pc2,          \* a second List call served at the same time: position
    i2,           \*   its loop counter
    list2,        \*   its list
    resp2,        \*   its result
    err2,         \*   its error
    ctxErr2       \*   ctx.Err() of its own context

vars == <<kind, ctxImpl, ctxErr, now, deadline, pc, i, list, wake, resp, err,
          sent, delivered, trailer, cpc, recvd, cerr,
          rpc, wStatus, wBody, wHeaderCalls, logged, afterDone, ceCalls,
          mpc, gpc, gerr, sendq, runErr, exited, mlog, failOrder, sendOrder,
          pc2, i2, list2, resp2, err2, ctxErr2>>

---------------------------------------------------------------------------
(* Program constants *)

\* (mutant) the loop stops one item early
MutLimit == 50 - 1

\* for i := 1; i < 50; i++
Limit == 50
\* time.Sleep(100 * time.Millisecond) in List, in ticks
ListSleep == 1
\* (mutant) ListStream paced like List
MutStreamSleep == ListSleep

\* time.Sleep(1 * time.Second) in ListStream, in ticks
StreamSleep == 10
\* context.WithTimeout(ctx, 3*time.Second) in the client, in ticks
ClientTimeout == 30
\* randSeq(10)
NameLen == 10
\* http.StatusOK
StatusOK == 200

\* (mutant) the failure branch writes the success status
MutStatusInternalServerError == StatusOK

\* http.StatusInternalServerError
StatusInternalServerError == 500

(* Bounds of the model *)

\* deadlines 0..MaxDeadline ticks are tried, besides no deadline
MaxDeadline == 6

NoDeadline == -1

---------------------------------------------------------------------------
(* Values *)

Nil == [code |-> "OK", msg |-> ""]

StatusError(c, m) == [code |-> c, msg |-> m]

\* randSeq(n): n random letters, title-cased; only the shape is kept
randSeq(n) == [letters |-> n, title |-> TRUE]

\* (mutant) ids counted from zero
MutCity(id) == [Id |-> id - 1, Name |-> randSeq(NameLen)]

\* &cities.City{Id: uint32(i), Name: randSeq(10)}
City(id) == [Id |-> id, Name |-> randSeq(NameLen)]

\* (mutant) ids counted from zero
MutCityStream(id) == [City |-> City(id - 1)]

\* &cities.CityStream{City: &cities.City{Id: uint32(i), Name: randSeq(10)}}
CityStream(id) == [City |-> City(id)]

\* (mutant) the deadline case is missing
MutContextError(e) ==
    CASE e = "Canceled" -> StatusError("Canceled", "request is canceled")
      [] OTHER -> Nil

\* (mutant) the two cases are swapped
MutContextErrorSwapped(e) ==
    CASE e = "Canceled" -> StatusError("DeadlineExceeded", "deadline is exceeded")
      [] e = "DeadlineExceeded" -> StatusError("Canceled", "request is canceled")
      [] OTHER -> Nil

\* switch ctx.Err() { case context.Canceled: ... case context.DeadlineExceeded: ...
\* default: return nil }
contextError(e) ==
    CASE e = "Canceled" -> StatusError("Canceled", "request is canceled")
      [] e = "DeadlineExceeded" -> StatusError("DeadlineExceeded", "deadline is exceeded")
      [] OTHER -> Nil

Done == ctxErr # "nil"

streamVars == <<sent, delivered, trailer, cpc, recvd, cerr>>
restVars == <<wStatus, wBody, wHeaderCalls, logged>>
runVars == <<mpc, gpc, gerr, sendq, runErr, exited, mlog, failOrder, sendOrder>>
peerVars == <<pc2, i2, list2, resp2, err2, ctxErr2>>
reqVars == <<kind, ctxImpl, deadline, runVars, peerVars>>

\* a call contextError(ctx) made at `site`
Called(site) ==
    ceCalls' = ceCalls \cup {[site |-> site, on |-> ctxErr, ret |-> contextError(ctxErr)]}

\* an item is created (and appended or handed to stream.Send)
Produced == afterDone' = IF Done THEN afterDone + 1 ELSE afterDone

\* the request is still being served
Active ==
    CASE kind = "rest" -> rpc # "done"
      [] OTHER -> pc # "returned"

---------------------------------------------------------------------------
(* citiesServer.List *)

\* List returns (r, e); for the HTTP endpoint control goes back to rest
ListReturns(r, e) ==
    /\ resp' = r
    /\ err' = e
    /\ pc' = "returned"
    /\ rpc' = IF kind = "rest" THEN "check" ELSE rpc

\* (mutant) no check before an item, only the one after the loop
MutListLoop ==
    /\ pc = "L_loop"
    /\ pc' = IF i < Limit THEN "L_append" ELSE "L_final"
    /\ UNCHANGED <<reqVars, ctxErr, now, i, list, wake, resp, err, rpc, ceCalls, streamVars,
                   restVars, afterDone>>

\* for i := 1; i < 50; i++ { err := contextError(ctx); if err != nil { return nil, err }
ListLoop ==
    /\ pc = "L_loop"
    /\ IF i < Limit
          THEN /\ Called("List.loop")
               /\ IF contextError(ctxErr) # Nil
                     THEN ListReturns(<<>>, contextError(ctxErr))
                     ELSE /\ pc' = "L_append"
                          /\ UNCHANGED <<resp, err, rpc>>
          ELSE /\ pc' = "L_final"
               /\ UNCHANGED <<resp, err, rpc, ceCalls>>
    /\ UNCHANGED <<reqVars, ctxErr, now, i, list, wake, streamVars, restVars, afterDone>>

\* list = append(list, &cities.City{...}); time.Sleep(100 * time.Millisecond) begins
ListAppend ==
    /\ pc = "L_append"
    /\ list' = Append(list, City(i))
    /\ Produced
    /\ wake' = now + ListSleep
    /\ pc' = "L_sleep"
    /\ UNCHANGED <<reqVars, ctxErr, now, i, resp, err, streamVars, rpc, restVars, ceCalls>>

\* the sleep ends; println(i); i++
ListWake ==
    /\ pc = "L_sleep"
    /\ now >= wake
    /\ i' = i + 1
    /\ pc' = "L_loop"
    /\ UNCHANGED <<reqVars, ctxErr, now, list, wake, resp, err, streamVars, rpc, restVars,
                   afterDone, ceCalls>>

\* (mutant) the result of the check after the loop is ignored
MutListFinal ==
    /\ pc = "L_final"
    /\ Called("List.final")
    /\ pc' = "L_tail"
    /\ UNCHANGED <<reqVars, ctxErr, now, i, list, wake, resp, err, rpc, streamVars, restVars,
                   afterDone>>

\* err := contextError(ctx); if err != nil { return nil, err }
ListFinal ==
    /\ pc = "L_final"
    /\ Called("List.final")
    /\ IF contextError(ctxErr) # Nil
          THEN ListReturns(<<>>, contextError(ctxErr))
          ELSE /\ pc' = "L_tail"
               /\ UNCHANGED <<resp, err, rpc>>
    /\ UNCHANGED <<reqVars, ctxErr, now, i, list, wake, streamVars, restVars, afterDone>>

\* (mutant) List waits for the context to be done before it returns
MutListTail ==
    /\ pc = "L_tail"
    /\ Done
    /\ ListReturns(<<list>>, Nil)
    /\ UNCHANGED <<reqVars, ctxErr, now, i, list, wake, streamVars, restVars, afterDone,
                   ceCalls>>

\* for i := 1; i < 10; i++ { println(i) }; return &cities.Cities{City: list}, nil
ListTail ==
    /\ pc = "L_tail"
    /\ ListReturns(<<list>>, Nil)
    /\ UNCHANGED <<reqVars, ctxErr, now, i, list, wake, streamVars, restVars, afterDone,
                   ceCalls>>

---------------------------------------------------------------------------
(* citiesServer.ListStream *)

\* the handler returns e; the status reaches the client unless the context is
\* done, in which case the client's stream has already ended with the context's error
StreamReturns(e) ==
    /\ err' = e
    /\ pc' = "returned"
    /\ trailer' = IF Done THEN <<>> ELSE <<e>>

\* (mutant) the start check calls contextError without waiting on ctx.Done(), as List does
MutListStreamStart ==
    /\ pc = "S_start"
    /\ Called("ListStream.start")
    /\ IF contextError(ctxErr) # Nil
          THEN /\ StreamReturns(contextError(ctxErr))
               /\ UNCHANGED wake
          ELSE /\ IF i < Limit
                     THEN pc' = "S_sleep" /\ wake' = now + StreamSleep
                     ELSE pc' = "S_tail" /\ UNCHANGED wake
               /\ UNCHANGED <<err, trailer>>
    /\ UNCHANGED <<reqVars, ctxErr, now, i, list, resp, sent, delivered, cpc, recvd, cerr,
                   rpc, restVars, afterDone>>

\* select { case <-ctx.Done(): return contextError(ctx); default: }; loop entry
ListStreamStart ==
    /\ pc = "S_start"
    /\ IF Done
          THEN /\ Called("ListStream.start")
               /\ StreamReturns(contextError(ctxErr))
               /\ UNCHANGED wake
          ELSE /\ IF i < Limit
                     THEN pc' = "S_sleep" /\ wake' = now + StreamSleep
                     ELSE pc' = "S_tail" /\ UNCHANGED wake
               /\ UNCHANGED <<err, trailer, ceCalls>>
    /\ UNCHANGED <<reqVars, ctxErr, now, i, list, resp, sent, delivered, cpc, recvd, cerr,
                   rpc, restVars, afterDone>>

\* (mutant) a failed Send on a done context is reported as the context's error
MutListStreamSend ==
    /\ pc = "S_sleep"
    /\ now >= wake
    /\ Produced
    /\ \E ok \in BOOLEAN :
          IF ok
            THEN /\ sent' = Append(sent, CityStream(i))
                 /\ delivered' = IF Done THEN delivered ELSE delivered + 1
                 /\ i' = i + 1
                 /\ IF i + 1 < Limit
                       THEN pc' = "S_sleep" /\ wake' = now + StreamSleep
                       ELSE pc' = "S_tail" /\ UNCHANGED wake
                 /\ UNCHANGED <<err, trailer>>
            ELSE /\ StreamReturns(IF contextError(ctxErr) # Nil
                                    THEN contextError(ctxErr)
                                    ELSE StatusError("Unknown", "cannot send stream response"))
                 /\ UNCHANGED <<sent, delivered, i, wake>>
    /\ UNCHANGED <<reqVars, ctxErr, now, list, resp, cpc, recvd, cerr, rpc, restVars, ceCalls>>

\* the sleep ends; res := &cities.CityStream{...}; stream.Send(res) succeeds or fails; i++
ListStreamSend ==
    /\ pc = "S_sleep"
    /\ now >= wake
    /\ Produced
    /\ \E ok \in BOOLEAN :
          IF ok
            THEN /\ sent' = Append(sent, CityStream(i))
                 /\ delivered' = IF Done THEN delivered ELSE delivered + 1
                 /\ i' = i + 1
                 /\ IF i + 1 < Limit
                       THEN pc' = "S_sleep" /\ wake' = now + StreamSleep
                       ELSE pc' = "S_tail" /\ UNCHANGED wake
                 /\ UNCHANGED <<err, trailer>>
            ELSE /\ StreamReturns(StatusError("Unknown", "cannot send stream response"))
                 /\ UNCHANGED <<sent, delivered, i, wake>>
    /\ UNCHANGED <<reqVars, ctxErr, now, list, resp, cpc, recvd, cerr, rpc, restVars, ceCalls>>

\* println("tes"); return nil
ListStreamTail ==
    /\ pc = "S_tail"
    /\ StreamReturns(Nil)
    /\ UNCHANGED <<reqVars, ctxErr, now, i, list, wake, resp, sent, delivered, cpc, recvd,
                   cerr, rpc, restVars, afterDone, ceCalls>>

---------------------------------------------------------------------------
(* callStream (client) *)

\* the status stream.Recv reports once the client's context is done
ContextErr(e) ==
    CASE e = "Canceled" -> StatusError("Canceled", "context canceled")
      [] e = "DeadlineExceeded" -> StatusError("DeadlineExceeded", "context deadline exceeded")
      [] OTHER -> StatusError("Internal", "unexpected context error")

\* resp, err := stream.Recv() returns the next message; it is printed
callStreamRecv ==
    /\ cpc = "recv"
    /\ Len(recvd) < delivered
    /\ recvd' = Append(recvd, sent[Len(recvd) + 1])
    /\ UNCHANGED <<reqVars, ctxErr, now, pc, i, list, wake, resp, err, sent, delivered,
                   trailer, cpc, cerr, rpc, restVars, afterDone, ceCalls>>

\* stream.Recv() fails because the client's context is done: return err
callStreamCtxDone ==
    /\ cpc = "recv"
    /\ Done
    /\ cpc' = "err"
    /\ cerr' = ContextErr(ctxErr)
    /\ UNCHANGED <<reqVars, ctxErr, now, pc, i, list, wake, resp, err, sent, delivered,
                   trailer, recvd, rpc, restVars, afterDone, ceCalls>>

\* the stream ended: io.EOF (break, return nil) or the handler's status (return err)
callStreamEnd ==
    /\ cpc = "recv"
    /\ trailer # <<>>
    /\ Len(recvd) = delivered
    /\ IF trailer[1] = Nil
          THEN cpc' = "eof" /\ UNCHANGED cerr
          ELSE cpc' = "err" /\ cerr' = trailer[1]
    /\ UNCHANGED <<reqVars, ctxErr, now, pc, i, list, wake, resp, err, sent, delivered,
                   trailer, recvd, rpc, restVars, afterDone, ceCalls>>

---------------------------------------------------------------------------
(* rest (HTTP handler) *)

\* status.FromError(err); err = fmt.Errorf(st.Message()): the code is dropped
FromErrorMessage(e) == IF e = Nil THEN Nil ELSE [code |-> "error", msg |-> e.msg]

\* w.WriteHeader(code): only the first call sets the status
WriteHeader(code) ==
    /\ wHeaderCalls' = wHeaderCalls + 1
    /\ wStatus' = IF wStatus = 0 THEN code ELSE wStatus

\* json.Marshal(list.City)
Marshal(cs) == [j \in 1..Len(cs) |-> [id |-> cs[j].Id, name |-> cs[j].Name]]

\* after List: convert the status error; if err != nil { log; WriteHeader(500); return }
restCheck ==
    /\ rpc = "check"
    /\ IF FromErrorMessage(err) # Nil
          THEN /\ logged' = Append(logged, <<"error get list city", FromErrorMessage(err).msg>>)
               /\ WriteHeader(StatusInternalServerError)
               /\ rpc' = "done"
          ELSE /\ rpc' = "marshal"
               /\ UNCHANGED <<logged, wHeaderCalls, wStatus>>
    /\ UNCHANGED <<reqVars, ctxErr, now, pc, i, list, wake, resp, err, streamVars, wBody,
                   afterDone, ceCalls>>

\* data, err := json.Marshal(list.City); on error 500; else WriteHeader(200), w.Write(data)
restRespond ==
    /\ rpc = "marshal"
    /\ \E marshalled, written \in BOOLEAN :
          IF marshalled
            THEN /\ WriteHeader(StatusOK)
                 /\ wBody' = Marshal(resp[1])
                 /\ logged' = IF written THEN logged
                                         ELSE Append(logged, <<"error writing result", "">>)
            ELSE /\ logged' = Append(logged, <<"error marshalling result", "">>)
                 /\ WriteHeader(StatusInternalServerError)
                 /\ UNCHANGED wBody
    /\ rpc' = "done"
    /\ UNCHANGED <<reqVars, ctxErr, now, pc, i, list, wake, resp, err, streamVars,
                   afterDone, ceCalls>>

---------------------------------------------------------------------------
(* main, run and the two listeners of the server *)

Listeners == {"grpc", "rest"}

\* everything run and the listeners do not touch
handlerVars == <<kind, ctxImpl, deadline, ctxErr, now, pc, i, list, wake, resp, err,
                 streamVars, rpc, restVars, afterDone, ceCalls, peerVars>>

\* the process has not exited
Running == exited = <<>>

\* port map, make(chan error), NewServer, RegisterCitiesServiceServer; go func() { ... grpc }
runStart ==
    /\ mpc = "start"
    /\ gpc' = [gpc EXCEPT !["grpc"] = "listen"]
    /\ mpc' = "spawn"
    /\ UNCHANGED <<handlerVars, gerr, sendq, runErr, exited, mlog, failOrder, sendOrder>>

\* go func() { errorServer <- runRestServer(...) }(); run reaches the select
runSpawn ==
    /\ mpc = "spawn"
    /\ gpc' = [gpc EXCEPT !["rest"] = "listen"]
    /\ mpc' = "select"
    /\ UNCHANGED <<handlerVars, gerr, sendq, runErr, exited, mlog, failOrder, sendOrder>>

\* listener l returns error e to its goroutine
Returns(l, e) ==
    /\ gerr' = [gerr EXCEPT ![l] = e]
    /\ gpc' = [gpc EXCEPT ![l] = "returned"]
    /\ failOrder' = Append(failOrder, l)
    /\ UNCHANGED <<handlerVars, mpc, sendq, runErr, exited, mlog, sendOrder>>

\* listener l binds its port, or fails to
Listen(l, e) ==
    /\ Running
    /\ gpc[l] = "listen"
    /\ \E ok \in BOOLEAN :
          IF ok
            THEN /\ gpc' = [gpc EXCEPT ![l] = "serve"]
                 /\ UNCHANGED <<handlerVars, gerr, mpc, sendq, runErr, exited, mlog,
                                failOrder, sendOrder>>
            ELSE Returns(l, e)

\* listener l stops serving with an error
Serve(l, e) ==
    /\ Running
    /\ gpc[l] = "serve"
    /\ Returns(l, e)

\* runRpcServer: net.Listen
runRpcServerListen == Listen("grpc", "grpc: listen")

\* runRpcServer: rpcServer.Grpc.Serve(listener)
runRpcServerServe == Serve("grpc", "grpc: serve")

\* runRestServer: http.ListenAndServe, binding the port
runRestServerListen == Listen("rest", "http: listen")

\* runRestServer: http.ListenAndServe, serving
runRestServerServe == Serve("rest", "http: serve")

\* errorServer <- ...: the goroutine of listener l blocks in the send
Send(l) ==
    /\ Running
    /\ gpc[l] = "returned"
    /\ gpc' = [gpc EXCEPT ![l] = "blocked"]
    /\ sendq' = Append(sendq, l)
    /\ sendOrder' = Append(sendOrder, l)
    /\ UNCHANGED <<handlerVars, gerr, mpc, runErr, exited, mlog, failOrder>>

goSendRpc == Send("grpc")

goSendRest == Send("rest")

\* (mutant) run drops the error it received
MutRunSelect ==
    /\ mpc = "select"
    /\ sendq # <<>>
    /\ sendq' = Tail(sendq)
    /\ gpc' = [gpc EXCEPT ![Head(sendq)] = "sent"]
    /\ runErr' = <<"nil">>
    /\ mpc' = "returned"
    /\ UNCHANGED <<handlerVars, gerr, exited, mlog, failOrder, sendOrder>>

\* select { case err := <-errorServer: if err != nil { return err } }; return nil
runSelect ==
    /\ mpc = "select"
    /\ sendq # <<>>
    /\ sendq' = Tail(sendq)
    /\ gpc' = [gpc EXCEPT ![Head(sendq)] = "sent"]
    /\ runErr' = <<gerr[Head(sendq)]>>
    /\ mpc' = "returned"
    /\ UNCHANGED <<handlerVars, gerr, exited, mlog, failOrder, sendOrder>>

\* if err := run(); err != nil { log.Printf(...); os.Exit(1) }
mainExit ==
    /\ mpc = "returned"
    /\ IF runErr # <<"nil">>
          THEN /\ mlog' = Append(mlog, <<"error: shutting down", runErr[1]>>)
               /\ exited' = <<"1">>
          ELSE /\ exited' = <<"0">>
               /\ UNCHANGED mlog
    /\ mpc' = "exited"
    /\ UNCHANGED <<handlerVars, gpc, gerr, sendq, runErr, failOrder, sendOrder>>

\* the steps of main and run
MainNext == runStart \/ runSpawn \/ runSelect \/ mainExit

\* the server as a request finds it: both listeners serving, run in its select
Serving ==
    /\ mpc = "select"
    /\ gpc = [l \in Listeners |-> "serve"]
    /\ gerr = [l \in Listeners |-> "nil"]
    /\ sendq = <<>>
    /\ runErr = <<>>
    /\ exited = <<>>
    /\ mlog = <<>>
    /\ failOrder = <<>>
    /\ sendOrder = <<>>

---------------------------------------------------------------------------
(* A second request: citiesServer.List called again while the first is served *)

\* everything the second call does not touch
otherVars == <<kind, ctxImpl, deadline, ctxErr, now, pc, i, list, wake, resp, err,
               streamVars, rpc, restVars, afterDone, ceCalls, runVars>>

\* the second List call returns (r, e)
PeerReturns(r, e) ==
    /\ resp2' = r
    /\ err2' = e
    /\ pc2' = "returned"

\* (mutant) the second call polls the context of the first
MutPeerLoop ==
    /\ pc2 = "L_loop"
    /\ IF i2 < Limit
          THEN IF contextError(ctxErr) # Nil
                 THEN PeerReturns(<<>>, contextError(ctxErr))
                 ELSE /\ pc2' = "L_append"
                      /\ UNCHANGED <<resp2, err2>>
          ELSE /\ pc2' = "L_final"
               /\ UNCHANGED <<resp2, err2>>
    /\ UNCHANGED <<otherVars, i2, list2, ctxErr2>>

\* for i := 1; i < 50; i++ { err := contextError(ctx); if err != nil { return nil, err }
PeerLoop ==
    /\ pc2 = "L_loop"
    /\ IF i2 < Limit
          THEN IF contextError(ctxErr2) # Nil
                 THEN PeerReturns(<<>>, contextError(ctxErr2))
                 ELSE /\ pc2' = "L_append"
                      /\ UNCHANGED <<resp2, err2>>
          ELSE /\ pc2' = "L_final"
               /\ UNCHANGED <<resp2, err2>>
    /\ UNCHANGED <<otherVars, i2, list2, ctxErr2>>

\* list = append(list, &cities.City{...}); time.Sleep(100 * time.Millisecond) begins
PeerAppend ==
    /\ pc2 = "L_append"
    /\ list2' = Append(list2, City(i2))
    /\ pc2' = "L_sleep"
    /\ UNCHANGED <<otherVars, i2, resp2, err2, ctxErr2>>

\* the sleep ends, at any point of the first request's clock; println(i); i++
PeerWake ==
    /\ pc2 = "L_sleep"
    /\ i2' = i2 + 1
    /\ pc2' = "L_loop"
    /\ UNCHANGED <<otherVars, list2, resp2, err2, ctxErr2>>

\* err := contextError(ctx); if err != nil { return nil, err }
PeerFinal ==
    /\ pc2 = "L_final"
    /\ IF contextError(ctxErr2) # Nil
          THEN PeerReturns(<<>>, contextError(ctxErr2))
          ELSE /\ pc2' = "L_tail"
               /\ UNCHANGED <<resp2, err2>>
    /\ UNCHANGED <<otherVars, i2, list2, ctxErr2>>

\* for i := 1; i < 10; i++ { println(i) }; return &cities.Cities{City: list}, nil
PeerTail ==
    /\ pc2 = "L_tail"
    /\ PeerReturns(<<list2>>, Nil)
    /\ UNCHANGED <<otherVars, i2, list2, ctxErr2>>

\* the second request's context becomes done: its caller cancels or its deadline elapses
PeerCtxDone ==
    /\ pc2 \notin {"idle", "returned"}
    /\ ctxErr2 = "nil"
    /\ \E e \in {"Canceled", "DeadlineExceeded"} : ctxErr2' = e
    /\ UNCHANGED <<otherVars, pc2, i2, list2, resp2, err2>>

\* the steps of the second call's goroutine
PeerNext == PeerLoop \/ PeerAppend \/ PeerWake \/ PeerFinal \/ PeerTail

\* the second call in state p, nothing done yet
PeerAt(p) ==
    /\ pc2 = p
    /\ i2 = 1
    /\ list2 = <<>>
    /\ resp2 = <<>>
    /\ err2 = Nil
    /\ ctxErr2 = "nil"

---------------------------------------------------------------------------
(* The request context and the clock *)

\* reasons a cancellation can give ctx.Err()
CancelErrs == IF ctxImpl = "std" THEN {"Canceled"} ELSE {"Canceled", "Other"}

\* the caller cancels (cancel(), a closed connection)
Cancel ==
    /\ Active
    /\ ~Done
    /\ \E e \in CancelErrs : ctxErr' = e
    /\ UNCHANGED <<reqVars, now, pc, i, list, wake, resp, err, streamVars, rpc, restVars,
                   afterDone, ceCalls>>

DeadlinePending == ~Done /\ deadline # NoDeadline /\ now >= deadline

\* the deadline of context.WithTimeout elapses
DeadlineFire ==
    /\ Active
    /\ DeadlinePending
    /\ ctxErr' = "DeadlineExceeded"
    /\ UNCHANGED <<reqVars, now, pc, i, list, wake, resp, err, streamVars, rpc, restVars,
                   afterDone, ceCalls>>

\* the client can return from stream.Recv at once
ClientPending == cpc = "recv" /\ (Len(recvd) < delivered \/ Done \/ trailer # <<>>)

\* 100 ms pass while the handler sleeps
Tick ==
    /\ pc \in {"L_sleep", "S_sleep"}
    /\ now < wake
    /\ ~DeadlinePending
    /\ ~ClientPending
    /\ now' = now + 1
    /\ UNCHANGED <<reqVars, ctxErr, pc, i, list, wake, resp, err, streamVars, rpc, restVars,
                   afterDone, ceCalls>>

---------------------------------------------------------------------------
(* Specifications *)

Kinds == {"List", "ListStream", "rest"}

\* a gRPC caller may set any deadline; an HTTP request context has none
Deadlines(k) ==
    IF k = "rest" THEN {NoDeadline}
                  ELSE {NoDeadline, ClientTimeout} \cup (0..MaxDeadline)

InitWith(impls) ==
    /\ Serving
    /\ kind \in Kinds
    /\ ctxImpl \in impls
    /\ ctxErr = "nil"
    /\ now = 0
    /\ deadline \in Deadlines(kind)
    /\ pc = IF kind = "ListStream" THEN "S_start" ELSE "L_loop"
    /\ i = 1
    /\ list = <<>>
    /\ wake = 0
    /\ resp = <<>>
    /\ err = Nil
    /\ sent = <<>>
    /\ delivered = 0
    /\ trailer = <<>>
    /\ cpc = IF kind = "ListStream" THEN "recv" ELSE "idle"
    /\ recvd = <<>>
    /\ cerr = Nil
    /\ rpc = IF kind = "rest" THEN "call" ELSE "idle"
    /\ wStatus = 0
    /\ wBody = <<>>
    /\ wHeaderCalls = 0
    /\ logged = <<>>
    /\ afterDone = 0
    /\ ceCalls = {}

\* requests whose context the transport made
Init == InitWith({"std"}) /\ PeerAt("idle")

\* requests with any implementation of context.Context
InitAnyCtx == InitWith({"std", "custom"}) /\ PeerAt("idle")

Next ==
    \/ ListLoop
    \/ ListAppend
    \/ ListWake
    \/ ListFinal
    \/ ListTail
    \/ ListStreamStart
    \/ ListStreamSend
    \/ ListStreamTail
    \/ callStreamRecv
    \/ callStreamCtxDone
    \/ callStreamEnd
    \/ restCheck
    \/ restRespond
    \/ Cancel
    \/ DeadlineFire
    \/ Tick

Spec == Init /\ [][Next]_vars

SpecAnyCtx == InitAnyCtx /\ [][Next]_vars

\* the server process starts; no request is being served
InitRun ==
    /\ mpc = "start"
    /\ gpc = [l \in Listeners |-> "unstarted"]
    /\ gerr = [l \in Listeners |-> "nil"]
    /\ sendq = <<>>
    /\ runErr = <<>>
    /\ exited = <<>>
    /\ mlog = <<>>
    /\ failOrder = <<>>
    /\ sendOrder = <<>>
    /\ PeerAt("idle")
    /\ kind = "none"
    /\ ctxImpl = "std"
    /\ ctxErr = "nil"
    /\ now = 0
    /\ deadline = NoDeadline
    /\ pc = "idle"
    /\ i = 1
    /\ list = <<>>
    /\ wake = 0
    /\ resp = <<>>
    /\ err = Nil
    /\ sent = <<>>
    /\ delivered = 0
    /\ trailer = <<>>
    /\ cpc = "idle"
    /\ recvd = <<>>
    /\ cerr = Nil
    /\ rpc = "idle"
    /\ wStatus = 0
    /\ wBody = <<>>
    /\ wHeaderCalls = 0
    /\ logged = <<>>
    /\ afterDone = 0
    /\ ceCalls = {}

NextRun ==
    \/ runStart
    \/ runSpawn
    \/ runRpcServerListen
    \/ runRpcServerServe
    \/ runRestServerListen
    \/ runRestServerServe
    \/ goSendRpc
    \/ goSendRest
    \/ runSelect
    \/ mainExit

\* the server process: a goroutine that can run eventually runs; a listener may
\* serve for ever
SpecRun ==
    /\ InitRun
    /\ [][NextRun]_vars
    /\ WF_vars(MainNext)
    /\ WF_vars(goSendRpc)
    /\ WF_vars(goSendRest)

\* two List calls served at the same time, the first by gRPC or by the HTTP endpoint
InitTwo ==
    /\ InitWith({"std"})
    /\ kind \in {"List", "rest"}
    /\ deadline = NoDeadline
    /\ PeerAt("L_loop")

NextTwo ==
    \/ ListLoop
    \/ ListAppend
    \/ ListWake
    \/ ListFinal
    \/ ListTail
    \/ restCheck
    \/ restRespond
    \/ Cancel
    \/ Tick
    \/ PeerLoop
    \/ PeerAppend
    \/ PeerWake
    \/ PeerFinal
    \/ PeerTail
    \/ PeerCtxDone

SpecTwo == InitTwo /\ [][NextTwo]_vars

\* the steps of the handler's goroutine
HandlerNext ==
    \/ ListLoop
    \/ ListAppend
    \/ ListWake
    \/ ListFinal
    \/ ListTail
    \/ ListStreamStart
    \/ ListStreamSend
    \/ ListStreamTail

\* the steps of the client's goroutine
ClientNext == callStreamRecv \/ callStreamCtxDone \/ callStreamEnd

\* fair scheduling: a runnable goroutine eventually runs, time passes, and an
\* elapsed timer fires; the caller is never obliged to cancel
SpecFair ==
    /\ Init
    /\ [][Next]_vars
    /\ WF_vars(HandlerNext)
    /\ WF_vars(ClientNext)
    /\ WF_vars(DeadlineFire)
    /\ WF_vars(Tick)

---------------------------------------------------------------------------
(* Properties *)

\* the ids of a slice of cities, in order
Ids(cs) == [j \in 1..Len(cs) |-> cs[j].Id]

\* the ids of a sequence of stream messages, in order
StreamIds(ms) == [j \in 1..Len(ms) |-> ms[j].City.Id]

\* <<1, ..., k>>
UpTo(k) == [j \in 1..k |-> j]

IsList == kind \in {"List", "rest"}

IsStream == kind = "ListStream"

\* some call of contextError ran on a context that was done
CheckedDone == \E c \in ceCalls : c.on # "nil"

\* C1: List never returns a partial list: it returns either all 49 items and no
\* error, or no result and a classified error; and once a check of List ran on a
\* done context (the context became done before the final check), it returns no
\* result and an error.
C1_NoPartialResult ==
    (IsList /\ pc = "returned") =>
        /\ \/ resp # <<>> /\ Ids(resp[1]) = UpTo(49) /\ err = Nil
           \/ resp = <<>> /\ err.code \in {"Canceled", "DeadlineExceeded"}
        /\ CheckedDone => (resp = <<>> /\ err # Nil)

\* List accumulated some items, then saw the cancellation and returned none of them
C1_Witness ==
    /\ kind = "List"
    /\ pc = "returned"
    /\ Len(list) \in 1..48
    /\ resp = <<>>
    /\ err.code = "Canceled"

C2_State ==
    IsStream =>
        /\ StreamIds(sent) = UpTo(Len(sent))
        /\ delivered <= Len(sent)
        /\ Len(recvd) <= delivered
        /\ recvd = SubSeq(sent, 1, Len(recvd))
        /\ (pc = "returned" /\ err.code \in {"Canceled", "DeadlineExceeded"} /\ cpc # "recv")
              => (recvd = sent /\ cpc = "err" /\ cerr # Nil)
        /\ (pc = "returned" /\ err # Nil /\ cpc # "recv") => cpc = "err"

C2_Step ==
    /\ \/ sent' = sent
       \/ pc # "returned" /\ Len(sent') = Len(sent) + 1 /\ SubSeq(sent', 1, Len(sent)) = sent
    /\ \/ recvd' = recvd
       \/ cpc = "recv" /\ Len(recvd') = Len(recvd) + 1 /\ SubSeq(recvd', 1, Len(recvd)) = recvd
    /\ cpc # "recv" => cpc' = cpc

C3_FullCompletion ==
    /\ (IsList /\ pc = "returned" /\ ~Done) =>
           (resp # <<>> /\ Ids(resp[1]) = UpTo(49) /\ err = Nil)
    /\ (IsStream /\ pc = "returned" /\ ~Done /\ err.code # "Unknown") =>
           (StreamIds(sent) = UpTo(49) /\ err = Nil /\ trailer = <<Nil>>)
    /\ (IsStream /\ cpc = "eof") => StreamIds(recvd) = UpTo(49)

\* the stream ran to its end on a live context and the caller saw the end of the stream
C3_Witness ==
    /\ IsStream
    /\ pc = "returned"
    /\ ~Done
    /\ err = Nil
    /\ Len(sent) = 49
    /\ cpc = "eof"

\* C4: in List and in ListStream at most one item is produced after the context
\* became done.
C4_NoWastedWork == afterDone <= 1

\* the context became done before the 49th item was produced
DoneBeforeLast == Done /\ (afterDone > 0 \/ i < Limit)

\* C5: if the context becomes done before the 49th item is produced, ListStream
\* ends with the classified cancellation error, never with success or a send error.
C5_StreamClassifiedError ==
    (IsStream /\ pc = "returned" /\ DoneBeforeLast) =>
        err.code \in {"Canceled", "DeadlineExceeded"}

\* C6: contextError never returns nil on a context that is done, so no handler
\* whose check ran on a done context returns success.
C6_ClassifierTotal ==
    /\ \A c \in ceCalls : c.on # "nil" => c.ret # Nil
    /\ (pc = "returned" /\ CheckedDone) => err # Nil

\* C7 as stated: every call of contextError runs on a context that is done.
C7_NeverOnLive == \A c \in ceCalls : c.on # "nil"

\* C7 as amended: ListStream calls contextError only on a done context; List calls
\* it at every check point, before each item and after the loop, also on a live
\* context, where it returns nil.
C7_LiveOnlyInList ==
    /\ \A c \in ceCalls :
          /\ c.site = "ListStream.start" => c.on # "nil"
          /\ c.on = "nil" => (c.site \in {"List.loop", "List.final"} /\ c.ret = Nil)
    /\ (IsList /\ Len(list) > 0) => \E c \in ceCalls : c.site = "List.loop" /\ c.on = "nil"
    /\ (IsList /\ pc = "L_tail") => \E c \in ceCalls : c.site = "List.final" /\ c.on = "nil"

\* List called contextError on a live context and went on
C7_Witness ==
    /\ kind = "List"
    /\ pc = "L_append"
    /\ [site |-> "List.loop", on |-> "nil", ret |-> Nil] \in ceCalls

\* the scenario of the client: a deadline of 3000 ms that elapsed
DeadlineScenario == deadline = ClientTimeout

\* C9 as stated: under the 3000 ms deadline the streaming caller has received
\* items 1..k with k in 28..30 when it gets DeadlineExceeded.
C9_Pacing100ms ==
    DeadlineScenario =>
        /\ (IsStream /\ cpc = "err" /\ cerr.code = "DeadlineExceeded") =>
               (Len(recvd) \in 28..30 /\ StreamIds(recvd) = UpTo(Len(recvd)))
        /\ (kind = "List" /\ pc = "returned" /\ ctxErr = "DeadlineExceeded") =>
               (resp = <<>> /\ err.code = "DeadlineExceeded")

\* C9 as amended: ListStream paces at 1000 ms per item, so under the 3000 ms
\* deadline the streaming caller has received items 1..k with k in 2..3 when it gets
\* DeadlineExceeded, and never reaches the end of the stream; List (100 ms per item)
\* returns no items and DeadlineExceeded.
C9_DeadlineScenario ==
    DeadlineScenario =>
        /\ (IsStream /\ cpc = "err" /\ cerr.code = "DeadlineExceeded") =>
               (Len(recvd) \in 2..3 /\ StreamIds(recvd) = UpTo(Len(recvd)))
        /\ IsStream => cpc # "eof"
        /\ (kind = "List" /\ pc = "returned") => resp = <<>>
        /\ (kind = "List" /\ pc = "returned" /\ ctxErr = "DeadlineExceeded") =>
               err.code = "DeadlineExceeded"

\* the streaming caller got two items and then the deadline error
C9_Witness ==
    /\ DeadlineScenario
    /\ IsStream
    /\ cpc = "err"
    /\ cerr = StatusError("DeadlineExceeded", "context deadline exceeded")
    /\ StreamIds(recvd) = <<1, 2>>

\* C10: rest writes the status header at most once; it writes 200 and the JSON
\* array of the 49 items exactly when List returned no error and the encoding
\* succeeded, and 500 with no body on every failure; after an error of List it
\* never writes 200 or a body.
C10_RestStatus ==
    kind = "rest" =>
        /\ wHeaderCalls <= 1
        /\ rpc = "done" => (wHeaderCalls = 1 /\ wStatus \in {StatusOK, 500})
        /\ wStatus = StatusOK =>
              /\ pc = "returned" /\ err = Nil
              /\ wBody = [j \in 1..49 |-> [id |-> j, name |-> randSeq(NameLen)]]
        /\ wStatus # StatusOK => wBody = <<>>
        /\ (pc = "returned" /\ err # Nil) => wStatus # StatusOK
        /\ (rpc = "done" /\ err # Nil) =>
              (wStatus = 500 /\ logged = <<<<"error get list city", err.msg>>>>)
        /\ (rpc = "done" /\ err = Nil /\ wStatus = 500) =>
              logged = <<<<"error marshalling result", "">>>>

\* the HTTP request was cancelled and rest answered 500
C10_Witness ==
    /\ kind = "rest"
    /\ rpc = "done"
    /\ err.code = "Canceled"
    /\ wStatus = 500
    /\ wHeaderCalls = 1

\* C12: a request that is never cancelled yields 50 cities from List and from
\* ListStream.
C12_FiftyCities ==
    /\ (IsList /\ pc = "returned" /\ ~Done) => (resp # <<>> /\ Len(resp[1]) = 50)
    /\ (IsStream /\ pc = "returned" /\ ~Done /\ err = Nil) => Len(sent) = 50

\* the check after the loop of List ran on a done context
FinalSawDone == \E c \in ceCalls : c.site = "List.final" /\ c.on # "nil"

\* C13: when the check after the loop of List runs on a done context, List returns
\* no items and the classified error; the completed list is returned only after
\* that check ran on a live context.
C13_FinalCheck ==
    IsList =>
        /\ (pc = "returned" /\ FinalSawDone) =>
              (resp = <<>> /\ err.code \in {"Canceled", "DeadlineExceeded"} /\ err.code = ctxErr)
        /\ (pc = "L_tail" \/ (pc = "returned" /\ resp # <<>>)) =>
              /\ [site |-> "List.final", on |-> "nil", ret |-> Nil] \in ceCalls
              /\ ~FinalSawDone

\* all 49 items were appended on a live context, then the context became done and
\* the check after the loop discarded them
C13_Witness ==
    /\ kind = "List"
    /\ pc = "returned"
    /\ Len(list) = 49
    /\ afterDone = 0
    /\ FinalSawDone
    /\ resp = <<>>
    /\ err.code = "Canceled"

\* the handler has been entered and has taken no step yet
AtEntry == (IsList /\ pc = "L_loop" /\ i = 1) \/ (IsStream /\ pc = "S_start")

C14_Step ==
    (Done /\ AtEntry /\ pc' # pc) =>
        /\ pc' = "returned"
        /\ err' # Nil
        /\ list' = <<>> /\ sent' = <<>> /\ resp' = <<>>
        /\ wake' = 0 /\ now' = now
        /\ afterDone' = 0

\* C14: a handler entered on a done context returns at its first step, with a
\* non-nil error, no item accumulated or sent and no sleep begun; a handler that
\* returned without ever sleeping returned an error and no items.
C14_PreStartError ==
    /\ [][C14_Step]_vars
    /\ []((pc = "returned" /\ wake = 0) => (err # Nil /\ list = <<>> /\ sent = <<>>))

\* List was entered after the deadline had elapsed and returned at once
C14_Witness ==
    /\ kind = "List"
    /\ pc = "returned"
    /\ wake = 0
    /\ list = <<>>
    /\ err.code = "DeadlineExceeded"

C15_Step ==
    /\ (pc = "S_sleep" /\ pc' = "returned") =>
          (err'.code = "Unknown" /\ sent' = sent /\ i' = i)
    /\ pc = "returned" =>
          (pc' = pc /\ err' = err /\ sent' = sent /\ i' = i /\ afterDone' = afterDone)

\* C15: the step at which stream.Send fails returns the transport error (code
\* Unknown) at once, also on a done context; the failed item is not sent, and after
\* the return nothing more is produced or sent.
C15_SendFailureAborts ==
    /\ [][C15_Step]_vars
    /\ [](err.code = "Unknown" => (IsStream /\ pc = "returned" /\ Len(sent) = i - 1))

\* a Send failed after the caller had cancelled: the handler returned Unknown
C15_Witness ==
    /\ IsStream
    /\ pc = "returned"
    /\ ctxErr = "Canceled"
    /\ err.code = "Unknown"
    /\ Len(sent) \in 1..48

\* C16: the items accumulated by List, and those sent by ListStream, are always the
\* items with ids 1..k in order, for some k in 0..49.
C16_IdOrder ==
    /\ Len(list) \in 0..49
    /\ Ids(list) = UpTo(Len(list))
    /\ Len(sent) \in 0..49
    /\ StreamIds(sent) = UpTo(Len(sent))
    /\ resp # <<>> => Ids(resp[1]) = UpTo(Len(resp[1]))

\* List is in the middle of its loop
C16_Witness ==
    /\ kind = "List"
    /\ pc = "L_sleep"
    /\ Ids(list) = UpTo(25)

\* C17: contextError returns nil on a live context, Canceled on a cancelled one and
\* DeadlineExceeded after the deadline; a Canceled or DeadlineExceeded error
\* returned by a handler names the reason of its context, and that reason never
\* changes once the context is done.
C17_ReasonFidelity ==
    /\ [](\A c \in ceCalls :
            /\ c.on = "nil" => c.ret = Nil
            /\ c.on = "Canceled" => c.ret = StatusError("Canceled", "request is canceled")
            /\ c.on = "DeadlineExceeded" =>
                  c.ret = StatusError("DeadlineExceeded", "deadline is exceeded"))
    /\ []((pc = "returned" /\ err.code \in {"Canceled", "DeadlineExceeded"}) => err.code = ctxErr)
    /\ [][ctxErr # "nil" => ctxErr' = ctxErr]_vars

\* ListStream was entered after the deadline and reported DeadlineExceeded
C17_Witness ==
    /\ IsStream
    /\ pc = "returned"
    /\ ctxErr = "DeadlineExceeded"
    /\ err = StatusError("DeadlineExceeded", "deadline is exceeded")

\* C19: under fair scheduling every List and ListStream call eventually returns,
\* whatever the context does, and its loop counter never passes 50 (at most 49
\* iterations).
C19_Termination == <>(pc = "returned") /\ [](i \in 1..50)

\* List ran its 49 iterations on a context that never became done, and returned
C19_Witness ==
    /\ kind = "List"
    /\ pc = "returned"
    /\ i = 50
    /\ ~Done
    /\ deadline = NoDeadline

\* some listener has returned
SomeReturned == \E l \in Listeners : gpc[l] \in {"returned", "blocked", "sent"}

\* C11 as stated: run returns the error of the listener that failed first.
C11_FirstFailedWins == runErr # <<>> => runErr[1] = gerr[failOrder[1]]

C11_State ==
    /\ runErr # <<>> => (runErr[1] # "nil" /\ runErr[1] = gerr[sendOrder[1]])
    /\ exited # <<>> =>
          /\ exited = <<"1">>
          /\ runErr # <<>>
          /\ mlog = <<<<"error: shutting down", runErr[1]>>>>
    /\ exited = <<>> => mlog = <<>>

C11_Step ==
    /\ runErr # <<>> => runErr' = runErr
    /\ exited # <<>> => UNCHANGED runVars

\* C11 as amended: run returns the error of the listener whose goroutine reaches
\* the send on errorServer first, and the process logs it and exits with status 1;
\* once a listener has returned, the process eventually exits; what run returned
\* never changes, and the other listener's result is never received or logged.
C11_FirstSentWins ==
    /\ [](C11_State)
    /\ [][C11_Step]_vars
    /\ (SomeReturned ~> exited # <<>>)

\* both listeners failed, the HTTP one last but first at the channel; the process
\* exited with its error and the gRPC goroutine stays blocked in its send
C11_Witness ==
    /\ exited = <<"1">>
    /\ failOrder = <<"grpc", "rest">>
    /\ runErr = <<"http: serve">>
    /\ gpc["grpc"] = "blocked"

\* what a List call does with its own context: items 1, 2, ... in order while it runs,
\* then all 49 and no error, or no result and the error of its own context
OwnOutcome(p, n, l, r, e, c) ==
    /\ Ids(l) = UpTo(Len(l))
    /\ Len(l) \in {n - 1, n}
    /\ p = "returned" =>
          /\ (c = "nil" => e = Nil)
          /\ e = Nil => (r = <<l>> /\ Len(l) = 49)
          /\ e # Nil => (r = <<>> /\ c # "nil" /\ e.code = c)

\* a call that has a step to take can take it, wherever the other call is
C18_Progress ==
    /\ pc2 \in {"L_loop", "L_append", "L_sleep", "L_final", "L_tail"} => ENABLED PeerNext
    /\ pc \in {"L_loop", "L_append", "L_final", "L_tail"} => ENABLED HandlerNext
    /\ pc = "L_sleep" => ENABLED (ListWake \/ Tick)

C18_State ==
    /\ OwnOutcome(pc, i, list, resp, err, ctxErr)
    /\ OwnOutcome(pc2, i2, list2, resp2, err2, ctxErr2)
    /\ C18_Progress

\* a step belongs to one request and leaves the other's state as it was
C18_Step ==
    \/ UNCHANGED <<pc2, i2, list2, resp2, err2, ctxErr2>>
    \/ UNCHANGED <<pc, i, list, wake, resp, err, ctxErr, now, rpc, restVars>>

\* C18: of two List calls served at the same time, in any interleaving, each one's
\* items, their order and its terminal outcome depend on its own context only, no
\* step of one (its signal becoming done, its sleep) changes the state of the other,
\* and neither keeps the other from taking its next step.
C18_Isolation == [](C18_State) /\ [][C18_Step]_vars

\* the first call was cancelled after two items and returned the error, the second
\* went on to return all 49
C18_Witness ==
    /\ pc = "returned"
    /\ err # Nil
    /\ Len(list) = 2
    /\ pc2 = "returned"
    /\ err2 = Nil
    /\ Len(resp2[1]) = 49

====
